---- MODULE Spec2Model ----
(***************************************************************************)
(* Session layer of the BPL_TEST2_Chemostat FMU-explore scripts: the       *)
(* parameter registry (parDict, parLocation, parCheck, par(), init()) and  *)
(* the run controller simu() with its captured state (stateDict) and clock *)
(* (prevFinalTime), in the three script variants                           *)
(*   "pyfmi" : BPL_TEST2_Chemostat_explore.py       (PyFMI, FMU-explore 0.9.7)   *)
(*   "fmpy"  : BPL_TEST2_Chemostat_fmpy_explore.py  (FMPy,  FMU-explore 1.0.1)   *)
(*   "me"    : BPL_TEST2_Chemostat_explore_me.py    (PyFMI, FMU-explore 0.9.6e)  *)
(*                                                                         *)
(* Names (mnemonics and backend paths) are sequences of one-character      *)
(* strings so that the scripts' slicing and substring tests are computed.  *)
(* Registry values are Python values: floats are kept in hundredths        *)
(* (0.5 is Num(50)); np.nan, None and '' are values of their own.          *)
(* Times (durations, the clock) are whole hours.                           *)
(***************************************************************************)
EXTENDS Integers, Sequences, FiniteSets, TLC

VARIABLES
  variant,        \* which of the three scripts this session runs
  parDict,        \* global parDict: mnemonic -> value
  defined,        \* the module globals that are bound (Python raises NameError on the others)
  stateDict,      \* global stateDict: state path -> value (meaningful when "stateDict" \in defined)
  prevFinalTime,  \* global prevFinalTime (meaningful when "prevFinalTime" \in defined)
  simulationTime, \* global simulationTime
  diagrams,       \* TRUE when newplot() has filled the global list diagrams
  start_values,   \* values handed to the backend: FMPy's global start_values,
                  \* PyFMI's model parameter settings since the last model.reset()
  lastOp,         \* the operator call that produced this state
  kw,             \* the arguments of the last par()/init() call, as a dict
  call,           \* the arguments of the last simu() call, the clock it found, where the
                  \* backend failed and how often it was asked to simulate
  printed,        \* what the last call printed
  raised,         \* the exception that ended the last call ("none" when it returned)
  backendOps,     \* the kinds of backend calls the last call made
  simReq,         \* the interval the last call asked the backend to simulate
  everCompleted,  \* TRUE once a run has completed in this session (history)
  prevCompleted,  \* TRUE when the most recent simu() call was a completed run (history)
  snapshot,       \* stateDict as committed by the last completed run (history)
  shown,          \* mnemonic -> value, as the last call displayed them (disp())
  fmuStates,      \* the state paths the FMU lists, in the order of stateDict.keys()
  pos,            \* how many of them the derivation loop has handled
  derived,        \* state path -> initial-value path, as far as the loop has come
  loopOut         \* "running", or how the loop ended: "done", "toomany" (break), "IndexError"

\* the variables of the loop that derives the initial-value paths
loopVars == <<fmuStates, pos, derived, loopOut>>

vars == <<variant, parDict, defined, stateDict, prevFinalTime, simulationTime, diagrams,
          start_values, lastOp, kw, call, printed, raised, backendOps, simReq,
          everCompleted, prevCompleted, snapshot, shown, fmuStates, pos, derived, loopOut>>

----------------------------------------------------------------------------
(* Bounds of the model *)

\* simu() is not called once the clock would pass MaxClock
MaxClock == 2
\* most keyword arguments in one par() or init() call
MaxArgs == 2
\* most states of an FMU whose initial-value paths are derived
MaxStates == 2

----------------------------------------------------------------------------
(* Python values *)

Num(n) == [tag |-> "num", n |-> n]
NaN    == [tag |-> "nan", n |-> 0]      \* the object np.nan
None   == [tag |-> "none", n |-> 0]
Empty  == [tag |-> "str", n |-> 0]      \* the empty string ''
VarObj == [tag |-> "var", n |-> 0]      \* a PyFMI ScalarVariable object

Variants == {"pyfmi", "fmpy", "me"}

\* a dict with no entries
EmptyDict == [k \in {} |-> None]

\* d.update(e): the entries of e replace or extend those of d
Update(d, e) == [k \in (DOMAIN d) \cup (DOMAIN e) |-> IF k \in DOMAIN e THEN e[k] ELSE d[k]]

----------------------------------------------------------------------------
(* Names *)

\* the initial-value marker: '_0' in the PyFMI scripts, '_start' in the FMPy script
Marker(v) == IF v = "fmpy" THEN <<"_","s","t","a","r","t">> ELSE <<"_","0">>

s_bioreactor == <<"b","i","o","r","e","a","c","t","o","r">>
s_feedtank   == <<"f","e","e","d","t","a","n","k">>
s_culture    == <<"c","u","l","t","u","r","e">>
s_table      == <<"t","a","b","l","e">>
Dot          == <<".">>
\* the feed schedule block: 'dosagescheme' (PyFMI scripts), 'schemePumps' (FMPy script)
Scheme(v) == IF v = "fmpy" THEN <<"s","c","h","e","m","e","P","u","m","p","s">>
                           ELSE <<"d","o","s","a","g","e","s","c","h","e","m","e">>
Idx1(i)    == <<"[", i, "]">>
Idx2(i, j) == <<"[", i, ",", j, "]">>

\* mnemonics
kV(v)   == <<"V">> \o Marker(v)
kVX(v)  == <<"V","X">> \o Marker(v)
kVS(v)  == <<"V","S">> \o Marker(v)
kY      == <<"Y">>
kqSmax  == <<"q","S","m","a","x">>
kKs     == <<"K","s">>
kS_in   == <<"S","_","i","n">>
kFeedV(v) == s_feedtank \o Dot \o <<"V">> \o Marker(v)
kt(i)   == <<"t", i>>
kF(i)   == <<"F", i>>
kmu     == <<"m","u">>
\* names the operator may type that the scripts do not declare
kfoo       == <<"f","o","o">>
kfooInit(v) == kfoo \o Marker(v)

\* parDict as created at import
DeclaredValues(v) ==
  (kV(v) :> Num(100)) @@ (kVX(v) :> Num(100)) @@ (kVS(v) :> Num(3000)) @@
  (kY :> Num(50)) @@ (kqSmax :> Num(75)) @@ (kKs :> Num(10)) @@
  (kS_in :> Num(3000)) @@ (kFeedV(v) :> Num(10000)) @@
  (kt("0") :> Num(0)) @@ (kF("0") :> Num(0)) @@
  (kt("1") :> Num(1000)) @@ (kF("1") :> Num(20)) @@
  (kt("2") :> Num(99900)) @@ (kF("2") :> Num(20)) @@
  (kt("3") :> Num(100000)) @@ (kF("3") :> Num(20))

parDictPyfmi == DeclaredValues("pyfmi")
parDictFmpy  == DeclaredValues("fmpy")
ParDict0(v)  == IF v = "fmpy" THEN parDictFmpy ELSE parDictPyfmi

\* parLocation: mnemonic -> backend path
DeclaredLocations(v) ==
  (kV(v)  :> s_bioreactor \o Dot \o <<"V">> \o Marker(v)) @@
  (kVX(v) :> s_bioreactor \o Dot \o <<"m">> \o Marker(v) \o Idx1("1")) @@
  (kVS(v) :> s_bioreactor \o Dot \o <<"m">> \o Marker(v) \o Idx1("2")) @@
  (kY     :> s_bioreactor \o Dot \o s_culture \o Dot \o kY) @@
  (kqSmax :> s_bioreactor \o Dot \o s_culture \o Dot \o kqSmax) @@
  (kKs    :> s_bioreactor \o Dot \o s_culture \o Dot \o kKs) @@
  (kS_in  :> s_feedtank \o Dot \o <<"c","_","i","n">> \o Idx1("2")) @@
  (kFeedV(v) :> s_feedtank \o Dot \o <<"V">> \o Marker(v)) @@
  (kt("0") :> Scheme(v) \o Dot \o s_table \o Idx2("1","1")) @@
  (kF("0") :> Scheme(v) \o Dot \o s_table \o Idx2("1","2")) @@
  (kt("1") :> Scheme(v) \o Dot \o s_table \o Idx2("2","1")) @@
  (kF("1") :> Scheme(v) \o Dot \o s_table \o Idx2("2","2")) @@
  (kt("2") :> Scheme(v) \o Dot \o s_table \o Idx2("3","1")) @@
  (kF("2") :> Scheme(v) \o Dot \o s_table \o Idx2("3","2")) @@
  (kt("3") :> Scheme(v) \o Dot \o s_table \o Idx2("4","1")) @@
  (kF("3") :> Scheme(v) \o Dot \o s_table \o Idx2("4","2")) @@
  (kmu    :> s_bioreactor \o Dot \o s_culture \o Dot \o kmu)

parLocationPyfmi == DeclaredLocations("pyfmi")
parLocationFmpy  == DeclaredLocations("fmpy")
ParLocation(v)   == IF v = "fmpy" THEN parLocationFmpy ELSE parLocationPyfmi

----------------------------------------------------------------------------
(* Parameter registry: parCheck, par(), init() *)

\* one printed line: what kind of line and the key or requirement it names
Msg(m, key) == [msg |-> m, key |-> key]

\* Python's a < b, a > b, a >= b: "T", "F", or "E" when it raises TypeError
PyCompare(a, op, b) ==
  IF a.tag = "num" /\ b.tag = "num" THEN
       IF (op = "<" /\ a.n < b.n) \/ (op = ">" /\ a.n > b.n) \/ (op = ">=" /\ a.n >= b.n)
       THEN "T" ELSE "F"
  ELSE IF {a.tag, b.tag} \subseteq {"num", "nan"} THEN "F"
  ELSE IF a.tag = "str" /\ b.tag = "str" THEN (IF op = ">=" THEN "T" ELSE "F")
  ELSE "E"

\* a requirement "parDict[lhs] op parDict[rhs]", or "parDict[lhs] op 0" when rhs is <<>>
Req(lhs, op, rhs) == [lhs |-> lhs, op |-> op, rhs |-> rhs]

\* the list parCheck; the script explore_me declares none
Requirements(v) ==
  IF v = "me" THEN <<>>
  ELSE << Req(kY, ">", <<>>), Req(kqSmax, ">", <<>>), Req(kKs, ">", <<>>),
          Req(kV(v), ">", <<>>), Req(kVX(v), ">=", <<>>),
          Req(kt("0"), "<", kt("1")), Req(kt("1"), "<", kt("2")), Req(kt("2"), "<", kt("3")) >>

parCheckPyfmi == Requirements("pyfmi")
parCheckFmpy  == Requirements("fmpy")
parCheck(v)   == IF v = "fmpy" THEN parCheckFmpy ELSE IF v = "me" THEN <<>> ELSE parCheckPyfmi

\* the requirement as the string par() prints
ReqText(r) == r.lhs \o <<r.op>> \o (IF r.rhs = <<>> THEN <<"0">> ELSE r.rhs)

\* eval(requirement) against the registry d
EvalReq(r, d) == PyCompare(d[r.lhs], r.op, IF r.rhs = <<>> THEN Num(0) ELSE d[r.rhs])

\* a par() that would merge every key of the call, known or not
AcceptAll(d, x_kwarg) == DOMAIN x_kwarg

\* "if key in parDict.keys()" of par(): the keys of the call that are merged
ParAccepted(d, x_kwarg) == {k \in DOMAIN x_kwarg : k \in DOMAIN d}

\* "if '_0' in key" / "if '_start' in key": Python's substring test
Contains(s, sub) ==
  \E i \in 1..(Len(s) - Len(sub) + 1) : SubSeq(s, i, i + Len(sub) - 1) = sub

\* an init() that would merge every key of the call, marker or not
InitAcceptAll(v, x_kwarg) == DOMAIN x_kwarg

\* the keys of an init() call that are merged
InitAccepted(v, x_kwarg) == {k \in DOMAIN x_kwarg : Contains(k, Marker(v))}

\* parErrors of par(): the requirements that do not hold on d
ParErrors(v, d) == {i \in 1..Len(parCheck(v)) : EvalReq(parCheck(v)[i], d) = "F"}

\* TRUE when evaluating the list comprehension over parCheck raises TypeError
ParCheckRaises(v, d) == \E i \in 1..Len(parCheck(v)) : EvalReq(parCheck(v)[i], d) = "E"

\* what par() prints after the merge
ParReport(v, d) ==
  IF ParCheckRaises(v, d) \/ ParErrors(v, d) = {} THEN {}
  ELSE {Msg("requirements", <<>>)} \cup {Msg("violated", ReqText(parCheck(v)[i])) : i \in ParErrors(v, d)}

----------------------------------------------------------------------------
(* The simulation unit: its states, and the initial-value path of a state *)

\* the continuous states of the chemostat FMU, in the order the backend lists them
StateList ==
  << s_bioreactor \o Dot \o <<"m">> \o Idx1("1"),
     s_bioreactor \o Dot \o <<"m">> \o Idx1("2"),
     s_bioreactor \o Dot \o <<"V">>,
     s_feedtank \o Dot \o <<"V">> >>

States == {StateList[i] : i \in 1..Len(StateList)}

\* Python slices key[-n:] and key[:-n]
LastN(key, n)  == IF Len(key) <= n THEN key ELSE SubSeq(key, Len(key) - n + 1, Len(key))
DropN(key, n)  == IF Len(key) <= n THEN <<>> ELSE SubSeq(key, 1, Len(key) - n)
\* key[-n] == c, where key[-n] raises IndexError on a shorter key
CharAt(key, n) == IF Len(key) < n THEN "IndexError" ELSE key[Len(key) - n + 1]

\* a splice that would cut one character too early
SpliceEarly(v, key, n) == DropN(key, n + 1) \o Marker(v) \o LastN(key, n + 1)
\* key[:-n] + marker + key[-n:]
Splice(v, key, n) == DropN(key, n) \o Marker(v) \o LastN(key, n)

\* a block rule that would strip the three characters of the tag only
BlockTagOnly(v, key, tag) == DropN(key, 3) \o tag \o Marker(v)
\* key[:-10] + 'I' + marker, key[:-10] + 'D' + marker
BlockPath(v, key, tag) == DropN(key, 10) \o tag \o Marker(v)

\* an append that would put the marker in front of the last path component's letter
AppendMarkerEarly(v, key) == DropN(key, 1) \o Marker(v) \o LastN(key, 1)
\* key + marker
AppendMarker(v, key) == key \o Marker(v)

\* the if/elif chain that rewrites a state path into its initial-value path
Derive(v, key) ==
  IF key = <<>> THEN [kind |-> "IndexError", path |-> <<>>]
  ELSE IF CharAt(key, 1) # "]" THEN
       IF v # "me" /\ LastN(key, 3) = <<"I", ".", "y">>
         THEN [kind |-> "ok", path |-> BlockPath(v, key, <<"I">>)]
       ELSE IF v # "me" /\ LastN(key, 3) = <<"D", ".", "x">>
         THEN [kind |-> "ok", path |-> BlockPath(v, key, <<"D">>)]
       ELSE [kind |-> "ok", path |-> AppendMarker(v, key)]
  ELSE IF CharAt(key, 3) = "IndexError" THEN [kind |-> "IndexError", path |-> <<>>]
  ELSE IF CharAt(key, 3) = "[" THEN [kind |-> "ok", path |-> Splice(v, key, 3)]
  ELSE IF CharAt(key, 4) = "IndexError" THEN [kind |-> "IndexError", path |-> <<>>]
  ELSE IF CharAt(key, 4) = "[" THEN [kind |-> "ok", path |-> Splice(v, key, 4)]
  ELSE IF CharAt(key, 5) = "IndexError" THEN [kind |-> "IndexError", path |-> <<>>]
  ELSE IF CharAt(key, 5) = "[" THEN [kind |-> "ok", path |-> Splice(v, key, 5)]
  ELSE [kind |-> "wide", path |-> <<>>]

\* the states reached by the loop before it breaks on a too wide index
ReachedCount(v) ==
  IF \E i \in 1..Len(StateList) : Derive(v, StateList[i]).kind # "ok"
  THEN (CHOOSE i \in 1..Len(StateList) :
          /\ Derive(v, StateList[i]).kind # "ok"
          /\ \A j \in 1..(i - 1) : Derive(v, StateList[j]).kind = "ok") - 1
  ELSE Len(StateList)

reachedPyfmi == ReachedCount("pyfmi")
reachedFmpy  == ReachedCount("fmpy")
reachedMe    == ReachedCount("me")
DerivedCount(v) == IF v = "fmpy" THEN reachedFmpy ELSE IF v = "me" THEN reachedMe ELSE reachedPyfmi

\* state path -> initial-value path, for the states the loop reached
InitialPaths(v) ==
  [key \in {StateList[i] : i \in 1..DerivedCount(v)} |-> Derive(v, key).path]

initialPathsPyfmi == InitialPaths("pyfmi")
initialPathsMe    == InitialPaths("me")
\* the global stateDictInitial of the FMPy script
stateDictInitialFmpy == InitialPaths("fmpy")
stateDictInitial(v) ==
  IF v = "fmpy" THEN stateDictInitialFmpy ELSE IF v = "me" THEN initialPathsMe ELSE initialPathsPyfmi

\* the value the backend reports for a state once its clock stands at t
StateIndex == [key \in States |-> CHOOSE i \in 1..Len(StateList) : StateList[i] = key]
StateBase(key) == 100 * StateIndex[key]
ModelGet(key, t) == Num(StateBase(key) + t)

\* the start value the FMU's model description declares for a parameter path: the
\* values the scripts repeat in parDict
FmuStart(v, path) ==
  DeclaredValues(v)[CHOOSE k \in DOMAIN DeclaredValues(v) : ParLocation(v)[k] = path]

\* the value of a parameter path as disp() and describe() read it: model.get(path)[0]
\* is the model instance's current setting (PyFMI), model_get(path) is
\* float(start) of the model description for a variable of causality 'parameter' (FMPy)
ParameterValue(v, sv, path) ==
  IF v = "fmpy" THEN FmuStart(v, path)
  ELSE IF path \in DOMAIN sv THEN sv[path] ELSE FmuStart(v, path)

----------------------------------------------------------------------------
(* simu(): the steps shared by the scripts.  A step takes and returns the   *)
(* session as a record s; s.done says a simulation has been made by this    *)
(* call, s.committed that its final state and clock have been stored.       *)
(* fail names the backend or plot call that raises during this call.        *)

Raise(s, exc, where) == [s EXCEPT !.raised = exc, !.failed = where]

\* "x = <value>" followed by the statements F(x): the value is computed once
Let(x, F(_)) == CHOOSE r \in {F(y) : y \in {x}} : TRUE

\* "if parDict[key] in [np.nan, None, '']": identity or equality with one of the three
IsMissing(x) == x \in {NaN, None, Empty}
MissingKeys(d) == {k \in DOMAIN d : IsMissing(d[k])}

\* model.reset(): the model instance is back at the FMU's own values, clock 0
Reset(s) == [s EXCEPT !.backendOps = @ \cup {"reset"}, !.start_values = EmptyDict, !.modelTime = 0]

\* {parLocation[k]: parDict[k]} over the keys ks that parLocation knows
Located(v, d, ks) ==
  [p \in {ParLocation(v)[k] : k \in ks} |-> d[CHOOSE k \in ks : ParLocation(v)[k] = p]]

\* a parameter loop that would touch the backend without handing it any value
SetParamsNone(s, fail) == [s EXCEPT !.backendOps = @ \cup {"set"}]

\* "for key in parDict.keys(): model.set(parLocation[key], parDict[key])".  The declared
\* keys come first in the dict, so they are all set before a key without a location
\* raises KeyError.
SetParams(s, fail) ==
  IF fail = "set" THEN [s EXCEPT !.backendOps = @ \cup {"set"}, !.raised = "BackendError", !.failed = "set"]
  ELSE Let((DOMAIN s.parDict) \cap (DOMAIN ParLocation(s.variant)),
           LAMBDA known :
             [s EXCEPT !.backendOps = @ \cup {"set"},
                       !.start_values = Update(@, Located(s.variant, s.parDict, known)),
                       !.raised = IF known # DOMAIN s.parDict THEN "KeyError" ELSE @])

\* initial-value path -> captured value, for the states the injection loop reaches
Injected(v, sd) ==
  [p \in {stateDictInitial(v)[StateList[i]] : i \in 1..DerivedCount(v)} |->
     sd[CHOOSE k \in DOMAIN stateDictInitial(v) : stateDictInitial(v)[k] = p]]

\* an injection in which a value already set at the path (the declared one) would stay
InjectDeclaredFirst(s) ==
  [s EXCEPT !.start_values = Update(Injected(s.variant, s.stateDict), @),
            !.backendOps = @ \cup {"set"}]

\* "for key in stateDict.keys(): ... model.set(<initial-value path>, stateDict[key])",
\* which prints and breaks at a state whose index is too wide
InjectStates(s) ==
  [s EXCEPT !.start_values = Update(@, Injected(s.variant, s.stateDict)),
            !.backendOps = @ \cup {"set"},
            !.printed = IF DerivedCount(s.variant) < Len(StateList)
                           /\ Derive(s.variant, StateList[DerivedCount(s.variant) + 1]).kind = "wide"
                        THEN @ \cup {Msg("toomany", <<>>)} ELSE @,
            !.raised = IF DerivedCount(s.variant) < Len(StateList)
                          /\ Derive(s.variant, StateList[DerivedCount(s.variant) + 1]).kind # "wide"
                       THEN "IndexError" ELSE @]

\* a backend call that would restart the time axis at 0 for every run
SimulateFromZero(s, start, stop, fail) ==
  IF fail = "simulate"
  THEN [s EXCEPT !.backendOps = @ \cup {"simulate"}, !.simReq = <<0, stop - start>>,
                 !.simulates = @ + 1,
                 !.raised = "BackendError", !.failed = "simulate"]
  ELSE [s EXCEPT !.backendOps = @ \cup {"simulate"}, !.simReq = <<0, stop - start>>,
                 !.simulates = @ + 1,
                 !.modelTime = stop - start, !.defined = @ \cup {"sim_res"}, !.done = TRUE]

\* a backend call that would be made a second time when the first one raises
SimulateRetried(s, start, stop, fail) ==
  IF fail = "simulate"
  THEN [s EXCEPT !.backendOps = @ \cup {"simulate"}, !.simReq = <<start, stop>>,
                 !.simulates = @ + 2,
                 !.raised = "BackendError", !.failed = "simulate"]
  ELSE [s EXCEPT !.backendOps = @ \cup {"simulate"}, !.simReq = <<start, stop>>,
                 !.simulates = @ + 1,
                 !.modelTime = stop, !.defined = @ \cup {"sim_res"}, !.done = TRUE]

\* model.simulate(...) / simulate_fmu(...) over [start, stop]
Simulate(s, start, stop, fail) ==
  IF fail = "simulate"
  THEN [s EXCEPT !.backendOps = @ \cup {"simulate"}, !.simReq = <<start, stop>>,
                 !.simulates = @ + 1,
                 !.raised = "BackendError", !.failed = "simulate"]
  ELSE [s EXCEPT !.backendOps = @ \cup {"simulate"}, !.simReq = <<start, stop>>,
                 !.simulates = @ + 1,
                 !.modelTime = stop, !.defined = @ \cup {"sim_res"}, !.done = TRUE]

\* "linetype = next(linecycler)" and "for command in diagrams: eval(command)"
Plot(s, fail) ==
  IF "linecycler" \notin s.defined THEN Raise(s, "NameError", "none")
  ELSE IF s.diagrams /\ fail = "plot" THEN Raise(s, "PlotError", "plot")
  ELSE s

\* the state a failing read leaves unread: the read of state number GetFailsAt raises
GetFailsAt == Len(StateList)

\* a commit that would leave stateDict as it is
CaptureNothing(s, fail) == s

\* "for key in stateDict.keys(): stateDict[key] = model.get(key)[0]" (PyFMI), which needs
\* the backend, and "stateDict[key] = model_get(key)" (FMPy), which reads sim_res
Capture(s, fail) ==
  LET upto(n) == [k \in DOMAIN s.stateDict |->
                    IF \E i \in 1..n : StateList[i] = k THEN ModelGet(k, s.modelTime)
                    ELSE s.stateDict[k]]
  IN IF s.variant = "fmpy" THEN [s EXCEPT !.stateDict = upto(Len(StateList))]
     ELSE IF fail = "get"
          THEN Raise([s EXCEPT !.stateDict = upto(GetFailsAt - 1), !.backendOps = @ \cup {"get"}],
                     "BackendError", "get")
          ELSE [s EXCEPT !.stateDict = upto(Len(StateList)), !.backendOps = @ \cup {"get"}]

\* a commit that would add the run's duration to the stored clock
StoreClockAdded(s) ==
  [s EXCEPT !.prevFinalTime = @ + (s.simReq[2] - s.simReq[1]), !.defined = @ \cup {"prevFinalTime"},
            !.committed = TRUE]

\* "prevFinalTime = model.time" / "prevFinalTime = sim_res['time'][-1]"
StoreClock(s) ==
  [s EXCEPT !.prevFinalTime = s.modelTime, !.defined = @ \cup {"prevFinalTime"},
            !.committed = TRUE]

\* "if simulationDone: ... else: print('Error: No simulation done')"
Commit(s, fail) ==
  IF ~s.done THEN [s EXCEPT !.printed = @ \cup {Msg("nosim", <<>>)}]
  ELSE Let(Plot(s, fail),
           LAMBDA s1 : IF s1.raised # "none" THEN s1
                       ELSE Let(Capture(s1, fail),
                                LAMBDA s2 : IF s2.raised # "none" THEN s2 ELSE StoreClock(s2)))

InitModes == {"Initial", "initial", "init"}
ContModes == {"Continued", "continued", "cont"}

Range(f) == {f[k] : k \in DOMAIN f}
Restrict(f, ks) == [k \in ks |-> f[k]]

\* the ordering error of a continuation asked for before any run
OrderingError(s) == [s EXCEPT !.printed = @ \cup {Msg("ordering", <<>>)}]
\* the error printed for a mode that is neither an initial nor a continued spelling
ModeError(s) == [s EXCEPT !.printed = @ \cup {Msg("mode", <<>>)}]

\* the value guard at the top of simu() of the PyFMI scripts
ValueGuard(s) == {Msg("missing", k) : k \in MissingKeys(s.parDict)}

----------------------------------------------------------------------------
(* simu() of BPL_TEST2_Chemostat_explore.py *)

ContinuedPyfmi(s, d, fail) ==
  IF "prevFinalTime" \notin s.defined THEN Raise(s, "NameError", "none")
  ELSE IF s.prevFinalTime = 0 THEN OrderingError(s)
  ELSE Let(SetParams(s, fail),
           LAMBDA a : IF a.raised # "none" THEN a
                      ELSE Let(InjectStates(a),
                               LAMBDA b : IF b.raised # "none" THEN b
                                          ELSE Simulate(b, s.prevFinalTime, s.prevFinalTime + d, fail)))

InitialPyfmi(s, d, fail) ==
  Let(SetParams(s, fail), LAMBDA a : IF a.raised # "none" THEN a ELSE Simulate(a, 0, d, fail))

SimuPyfmi(s, d, mode, fail) ==
  IF ValueGuard(s) # {} THEN [s EXCEPT !.simulationTime = d, !.printed = ValueGuard(s)]
  ELSE Let(Reset([s EXCEPT !.simulationTime = d]),
           LAMBDA s1 :
             Let(IF mode \in InitModes THEN InitialPyfmi(s1, d, fail)
                 ELSE IF mode \in ContModes THEN ContinuedPyfmi(s1, d, fail)
                 ELSE ModeError(s1),
                 LAMBDA run : IF run.raised # "none" THEN run ELSE Commit(run, fail)))

----------------------------------------------------------------------------
(* simu() of BPL_TEST2_Chemostat_fmpy_explore.py *)

\* start_values of a continued run: parDictRed, parLocationMod, parDictMod and the
\* final dict comprehension, in which a later key replaces an earlier one
MergedStartValues(v, d, sd) ==
  LET sdi     == stateDictInitial(v)
      red     == {k \in DOMAIN d : ParLocation(v)[k] \notin Range(sdi)}
      lastOf(p) == CHOOSE k \in DOMAIN sdi : /\ sdi[k] = p
                     /\ \A j \in DOMAIN sdi : sdi[j] = p =>
                          (CHOOSE i \in 1..Len(StateList) : StateList[i] = j)
                            <= (CHOOSE i \in 1..Len(StateList) : StateList[i] = k)
      parDictMod     == Update(Restrict(d, red), [p \in Range(sdi) |-> sd[lastOf(p)]])
      parLocationMod == Update(Restrict(ParLocation(v),
                                        (DOMAIN ParLocation(v)) \ ((DOMAIN d) \ red)),
                               [p \in Range(sdi) |-> p])
  IN [p \in {parLocationMod[k] : k \in DOMAIN parDictMod} |->
        IF p \in Range(sdi) THEN parDictMod[p]
        ELSE parDictMod[CHOOSE k \in DOMAIN parDictMod : parLocationMod[k] = p]]

SetStartValues(s, sv) == [s EXCEPT !.start_values = sv, !.defined = @ \cup {"start_values"}]

ContinuedFmpy(s, d, fail) ==
  IF "prevFinalTime" \notin s.defined THEN Raise(s, "NameError", "none")
  ELSE IF s.prevFinalTime = 0 THEN OrderingError(s)
  ELSE IF ~((DOMAIN s.parDict) \subseteq (DOMAIN ParLocation(s.variant)))
       THEN Raise(s, "KeyError", "none")
  ELSE IF ~((DOMAIN s.stateDict) \subseteq (DOMAIN stateDictInitial(s.variant)))
       THEN Raise(s, "KeyError", "none")
  ELSE Let(SetStartValues(s, MergedStartValues(s.variant, s.parDict, s.stateDict)),
           LAMBDA a : Simulate(a, s.prevFinalTime, s.prevFinalTime + d, fail))

InitialFmpy(s, d, fail) ==
  IF ~((DOMAIN s.parDict) \subseteq (DOMAIN ParLocation(s.variant)))
  THEN Raise(s, "KeyError", "none")
  ELSE Let(SetStartValues(s, Located(s.variant, s.parDict, DOMAIN s.parDict)),
           LAMBDA a : Simulate(a, 0, d, fail))

SimuFmpy(s, d, mode, fail) ==
  Let(IF mode \in InitModes THEN InitialFmpy(s, d, fail)
      ELSE IF mode \in ContModes THEN ContinuedFmpy(s, d, fail)
      ELSE ModeError(s),
      LAMBDA run : IF run.raised # "none" THEN run ELSE Commit(run, fail))

----------------------------------------------------------------------------
(* simu() of BPL_TEST2_Chemostat_explore_me.py *)

\* "try: for key in stateDict.keys(): ... except NameError: print(...); prevFinalTime = 0"
InjectStatesMe(s) ==
  IF "stateDict" \notin s.defined
  THEN [OrderingError(s) EXCEPT !.prevFinalTime = 0, !.defined = @ \cup {"prevFinalTime"}]
  ELSE InjectStates(s)

ContinuedMe(s, d, fail) ==
  Let(SetParams(s, fail),
      LAMBDA a : IF a.raised # "none" THEN a
                 ELSE Let(InjectStatesMe(a),
                          LAMBDA b : IF b.raised # "none" THEN b
                                     ELSE IF "prevFinalTime" \notin b.defined
                                          THEN Raise(b, "NameError", "none")
                                     ELSE Simulate(b, b.prevFinalTime, b.prevFinalTime + d, fail)))

\* "try: stateDict / except NameError: stateDict = model.get_states_list()"
EnsureStateDict(s) ==
  IF "stateDict" \in s.defined THEN s
  ELSE [s EXCEPT !.stateDict = [k \in States |-> VarObj], !.defined = @ \cup {"stateDict"}]

\* the tail of simu(), which this script runs whether or not a simulation was made
CommitMe(s, fail) ==
  IF "sim_res" \notin s.defined THEN Raise(s, "NameError", "none")
  ELSE Let(Plot(s, fail),
           LAMBDA s1 : IF s1.raised # "none" THEN s1
                       ELSE Let(EnsureStateDict(s1),
                                LAMBDA e : Let(Capture(e, fail),
                                               LAMBDA s2 : IF s2.raised # "none" THEN s2
                                                           ELSE StoreClock(s2))))

SimuMe(s, d, mode, fail) ==
  IF ValueGuard(s) # {} THEN [s EXCEPT !.simulationTime = d, !.printed = ValueGuard(s)]
  ELSE Let(Reset([s EXCEPT !.simulationTime = d]),
           LAMBDA s1 :
             Let(IF mode \in InitModes THEN InitialPyfmi(s1, d, fail)
                 ELSE IF mode \in ContModes THEN ContinuedMe(s1, d, fail)
                 ELSE ModeError(s1),
                 LAMBDA run : IF run.raised # "none" THEN run ELSE CommitMe(run, fail)))

----------------------------------------------------------------------------
(* The session *)

\* what the operator types while exploring the registry
ParKeys     == {kY, kt("1"), kfoo}
ParVals     == {Num(-100), NaN, None}
InitKeys(v) == {kV(v), kY, kfooInit(v)}
InitVals    == {Num(-100), Empty}
\* what the operator types between runs: one keyword argument
RunParCalls     == {kY :> x : x \in {Num(-100), None}}
RunInitCalls(v) == {kV(v) :> x : x \in {Num(-100)}}
\* durations in hours, and the mode strings: the default, a continuation, a misspelling
Durations   == {0, 1}
Modes       == {"Initial", "cont", "continue"}
\* the calls that can raise during one simu(): model.set and model.get exist in the
\* PyFMI scripts only, and a diagram command only once newplot() has listed some
FailPoints  == {"none", "simulate"} \cup (IF variant = "fmpy" THEN {} ELSE {"set", "get"})
                 \cup (IF diagrams THEN {"plot"} ELSE {})

\* the keyword arguments of one call: at most n of the keys, each with a value
Calls(keys, vals, n) ==
  UNION {[S -> vals] : S \in {T \in SUBSET keys : Cardinality(T) <= n}}

NoCall == [d |-> 0, mode |-> "", failed |-> "none", clock |-> 0, simulates |-> 0]

Init ==
  /\ variant \in Variants
  /\ parDict = ParDict0(variant)
  /\ defined = IF variant = "me" THEN {} ELSE {"stateDict"}
  /\ stateDict = IF variant = "pyfmi" THEN [k \in States |-> VarObj]
                 ELSE IF variant = "fmpy" THEN [k \in States |-> None]
                 ELSE EmptyDict
  /\ prevFinalTime = 0
  /\ simulationTime = 60
  /\ diagrams = FALSE
  /\ start_values = EmptyDict
  /\ lastOp = "import"
  /\ kw = EmptyDict
  /\ call = NoCall
  /\ printed = {}
  /\ raised = "none"
  /\ backendOps = {}
  /\ simReq = <<>>
  /\ everCompleted = FALSE
  /\ prevCompleted = FALSE
  /\ snapshot = EmptyDict
  /\ shown = EmptyDict
  /\ fmuStates = StateList
  /\ pos = DerivedCount(variant)
  /\ derived = stateDictInitial(variant)
  /\ loopOut = "done"

\* a par() that would reject the call, keeping the old values, when a requirement fails
ParRollback(x_kwarg) ==
  \E merged \in {Update(parDict, Restrict(x_kwarg, ParAccepted(parDict, x_kwarg)))} :
     /\ parDict' = IF ParErrors(variant, merged) # {} THEN parDict ELSE merged
     /\ printed' = {Msg("unknown", k) : k \in (DOMAIN x_kwarg) \ ParAccepted(parDict, x_kwarg)}
                     \cup ParReport(variant, merged)
     /\ raised' = IF ParCheckRaises(variant, merged) THEN "TypeError" ELSE "none"
     /\ lastOp' = "par"
     /\ kw' = x_kwarg
     /\ call' = NoCall
     /\ backendOps' = {}
     /\ simReq' = <<>>
     /\ UNCHANGED <<variant, defined, stateDict, prevFinalTime, simulationTime, diagrams,
                    start_values, everCompleted, prevCompleted, snapshot>>
     /\ shown' = EmptyDict
     /\ UNCHANGED loopVars

\* par(**x_kwarg)
Par(x_kwarg) ==
  \E merged \in {Update(parDict, Restrict(x_kwarg, ParAccepted(parDict, x_kwarg)))} :
     /\ parDict' = merged
     /\ printed' = {Msg("unknown", k) : k \in (DOMAIN x_kwarg) \ ParAccepted(parDict, x_kwarg)}
                     \cup ParReport(variant, merged)
     /\ raised' = IF ParCheckRaises(variant, merged) THEN "TypeError" ELSE "none"
     /\ lastOp' = "par"
     /\ kw' = x_kwarg
     /\ call' = NoCall
     /\ backendOps' = {}
     /\ simReq' = <<>>
     /\ UNCHANGED <<variant, defined, stateDict, prevFinalTime, simulationTime, diagrams,
                    start_values, everCompleted, prevCompleted, snapshot>>
     /\ shown' = EmptyDict
     /\ UNCHANGED loopVars

\* init(**x_kwarg)
InitValues(x_kwarg) ==
  \E acc \in {InitAccepted(variant, x_kwarg)} :
     /\ parDict' = Update(parDict, Restrict(x_kwarg, acc))
     /\ printed' = {Msg("notinitial", k) : k \in (DOMAIN x_kwarg) \ acc}
     /\ raised' = "none"
     /\ lastOp' = "init"
     /\ kw' = x_kwarg
     /\ call' = NoCall
     /\ backendOps' = {}
     /\ simReq' = <<>>
     /\ UNCHANGED <<variant, defined, stateDict, prevFinalTime, simulationTime, diagrams,
                    start_values, everCompleted, prevCompleted, snapshot>>
     /\ shown' = EmptyDict
     /\ UNCHANGED loopVars

\* init(x_dict), the values entered as one positional dictionary: the dictionary is
\* bound to the first parameter of "def init(parDict=parDict, *x, **x_kwarg)", so x and
\* x_kwarg are empty, the loop has no key, and "parDict.update(x_init)" updates the
\* argument with nothing
InitPositional(x_dict) ==
  \E x_kwarg \in {EmptyDict} : \E acc \in {InitAccepted(variant, x_kwarg)} :
     /\ parDict' = parDict
     /\ printed' = {Msg("notinitial", k) : k \in (DOMAIN x_kwarg) \ acc}
     /\ raised' = "none"
     /\ lastOp' = "initdict"
     /\ kw' = x_dict
     /\ call' = NoCall
     /\ backendOps' = {}
     /\ simReq' = <<>>
     /\ UNCHANGED <<variant, defined, stateDict, prevFinalTime, simulationTime, diagrams,
                    start_values, everCompleted, prevCompleted, snapshot>>
     /\ shown' = EmptyDict
     /\ UNCHANGED loopVars

\* newplot(): setLines() binds linecycler, and the list diagrams is filled
NewPlot ==
  /\ defined' = defined \cup {"linecycler"}
  /\ diagrams' = TRUE
  /\ lastOp' = "newplot"
  /\ kw' = EmptyDict
  /\ call' = NoCall
  /\ printed' = {}
  /\ raised' = "none"
  /\ backendOps' = {}
  /\ simReq' = <<>>
  /\ UNCHANGED <<variant, parDict, stateDict, prevFinalTime, simulationTime, start_values,
                 everCompleted, prevCompleted, snapshot>>
  /\ shown' = EmptyDict
  /\ UNCHANGED loopVars

\* disp(): "for Location in [parLocation[k] for k in parDict.keys()]: if name in
\* Location: print(<mnemonic>, ':', <value read from the model>)", with name = ''
Disp ==
  /\ IF (DOMAIN parDict) \subseteq (DOMAIN ParLocation(variant))
     THEN /\ shown' = [k \in DOMAIN parDict |->
                         ParameterValue(variant, start_values, ParLocation(variant)[k])]
          /\ raised' = "none"
     ELSE /\ shown' = EmptyDict
          /\ raised' = "KeyError"
  /\ lastOp' = "disp"
  /\ kw' = EmptyDict
  /\ call' = NoCall
  /\ printed' = {}
  /\ backendOps' = {}
  /\ simReq' = <<>>
  /\ UNCHANGED <<variant, parDict, defined, stateDict, prevFinalTime, simulationTime, diagrams,
                 start_values, everCompleted, prevCompleted, snapshot>>
  /\ UNCHANGED loopVars

\* the session as simu() finds it.  modelTime is the backend's clock (model.time, the
\* last sample time of sim_res), which every path sets before it is read.
Session ==
  [variant |-> variant, parDict |-> parDict, defined |-> defined, stateDict |-> stateDict,
   prevFinalTime |-> prevFinalTime, simulationTime |-> simulationTime, diagrams |-> diagrams,
   start_values |-> start_values, modelTime |-> 0,
   printed |-> {}, raised |-> "none", failed |-> "none", backendOps |-> {}, simReq |-> <<>>,
   done |-> FALSE, committed |-> FALSE, simulates |-> 0]

SimuResult(s, d, mode, fail) ==
  IF s.variant = "pyfmi" THEN SimuPyfmi(s, d, mode, fail)
  ELSE IF s.variant = "fmpy" THEN SimuFmpy(s, d, mode, fail)
  ELSE SimuMe(s, d, mode, fail)

\* simu(d, mode), with the backend or plot call named by fail raising
Simu(d, mode, fail) ==
  /\ (mode \in ContModes /\ "prevFinalTime" \in defined) => prevFinalTime + d <= MaxClock
  /\ \E s \in {Session} : \E r \in {SimuResult(s, d, mode, fail)} :
        /\ defined' = r.defined
        /\ stateDict' = r.stateDict
        /\ prevFinalTime' = r.prevFinalTime
        /\ simulationTime' = r.simulationTime
        /\ start_values' = r.start_values
        /\ printed' = r.printed
        /\ raised' = r.raised
        /\ backendOps' = r.backendOps
        /\ simReq' = r.simReq
        /\ call' = [d |-> d, mode |-> mode, failed |-> r.failed, clock |-> prevFinalTime,
                    simulates |-> r.simulates]
        /\ everCompleted' = (everCompleted \/ (r.done /\ r.committed))
        /\ prevCompleted' = (r.done /\ r.committed)
        /\ snapshot' = IF r.done /\ r.committed THEN r.stateDict ELSE snapshot
  /\ lastOp' = "simu"
  /\ kw' = EmptyDict
  /\ UNCHANGED <<variant, parDict, diagrams>>
  /\ shown' = EmptyDict
  /\ UNCHANGED loopVars

\* a session of runs with single registry changes between them
Next ==
  \/ \E x \in RunParCalls : Par(x)
  \/ \E x \in RunInitCalls(variant) : InitValues(x)
  \/ NewPlot
  \/ \E d \in Durations, mode \in Modes, fail \in FailPoints : Simu(d, mode, fail)

Spec == Init /\ [][Next]_vars

\* the registry under par() and init() calls of up to MaxArgs keyword arguments
NextRegistry ==
  \/ \E x \in Calls(ParKeys, ParVals, MaxArgs) : Par(x)
  \/ \E x \in Calls(InitKeys(variant), InitVals, MaxArgs) : InitValues(x)

SpecRegistry == Init /\ [][NextRegistry]_vars

\* init() calls that may add a key, and runs that resolve every key of the registry
NextResolve ==
  \/ \E x \in Calls(InitKeys(variant), {Num(-100)}, 1) : InitValues(x)
  \/ NewPlot
  \/ \E d \in {1}, mode \in {"Initial", "cont"} : Simu(d, mode, "none")

SpecResolve == Init /\ [][NextResolve]_vars

\* init() in its keyword and its dictionary form, and runs that read the registry
NextInitForms ==
  \/ \E x \in Calls({kV(variant), kFeedV(variant), kY}, {Num(5000)}, MaxArgs) : InitValues(x)
  \/ \E x \in Calls({kV(variant), kFeedV(variant), kY}, {Num(5000)}, MaxArgs) : InitPositional(x)
  \/ NewPlot
  \/ \E d \in {1}, mode \in {"Initial", "cont"} : Simu(d, mode, "none")

SpecInitForms == Init /\ [][NextInitForms]_vars

\* registry changes, runs, and displays of the parameter values
NextDisplay ==
  \/ \E x \in RunParCalls : Par(x)
  \/ \E x \in Calls(InitKeys(variant), {Num(-100)}, 1) : InitValues(x)
  \/ NewPlot
  \/ \E d \in {1}, mode \in {"Initial", "cont"}, fail \in {"none", "simulate"} : Simu(d, mode, fail)
  \/ Disp

SpecDisplay == Init /\ [][NextDisplay]_vars

----------------------------------------------------------------------------
(* The loop over stateDict.keys() that derives the initial-value paths: at   *)
(* import in the FMPy script (stateDictInitial), in a continued simu() in    *)
(* the PyFMI scripts.  The FMU may list any states.                          *)

s_PID    == <<"P","I","D">>
s_limPID == <<"l","i","m","P","I","D">>
s_Iy     == <<"I",".","y">>
s_Dx     == <<"D",".","x">>

\* state paths an FMU may list: vector elements with an index of one to four
\* characters, a plain state, the integrator and derivative states of a limPID
\* block, and a plain state next to that block
CandidatePaths ==
  { s_bioreactor \o Dot \o <<"m">> \o Idx1("1"),
    s_bioreactor \o Dot \o <<"m">> \o <<"[","1","2","]">>,
    s_bioreactor \o Dot \o <<"m">> \o <<"[","1","2","3","]">>,
    s_bioreactor \o Dot \o <<"m">> \o <<"[","1","2","3","4","]">>,
    s_bioreactor \o Dot \o <<"V">>,
    s_PID \o Dot \o s_limPID \o Dot \o s_Iy,
    s_PID \o Dot \o s_limPID \o Dot \o s_Dx,
    s_PID \o Dot \o <<"I">> }

\* the lists of one to n different states
StateLists(n) ==
  {l \in UNION {[1..k -> CandidatePaths] : k \in 1..n} :
     \A i, j \in 1..Len(l) : i # j => l[i] # l[j]}

InitDerive ==
  /\ variant \in Variants
  /\ parDict = ParDict0(variant)
  /\ defined = {}
  /\ stateDict = EmptyDict
  /\ prevFinalTime = 0
  /\ simulationTime = 60
  /\ diagrams = FALSE
  /\ start_values = EmptyDict
  /\ lastOp = "import"
  /\ kw = EmptyDict
  /\ call = NoCall
  /\ printed = {}
  /\ raised = "none"
  /\ backendOps = {}
  /\ simReq = <<>>
  /\ everCompleted = FALSE
  /\ prevCompleted = FALSE
  /\ snapshot = EmptyDict
  /\ shown = EmptyDict
  /\ fmuStates \in StateLists(MaxStates)
  /\ pos = 0
  /\ derived = EmptyDict
  /\ loopOut = "running"

\* one pass of the loop body, for the state fmuStates[pos + 1]
DeriveNext ==
  /\ loopOut = "running"
  /\ pos < Len(fmuStates)
  /\ \E key \in {fmuStates[pos + 1]} : \E r \in {Derive(variant, key)} :
        /\ derived' = IF r.kind = "ok" THEN Update(derived, key :> r.path) ELSE derived
        /\ pos' = IF r.kind = "ok" THEN pos + 1 ELSE pos
        /\ loopOut' = IF r.kind = "wide" THEN "toomany"
                       ELSE IF r.kind = "IndexError" THEN "IndexError"
                       ELSE IF pos + 1 = Len(fmuStates) THEN "done" ELSE "running"
        /\ printed' = IF r.kind = "wide" THEN {Msg("toomany", <<>>)} ELSE {}
        /\ raised' = IF r.kind = "IndexError" THEN "IndexError" ELSE "none"
  /\ lastOp' = "derive"
  /\ UNCHANGED <<variant, parDict, defined, stateDict, prevFinalTime, simulationTime, diagrams,
                 start_values, kw, call, backendOps, simReq, everCompleted, prevCompleted,
                 snapshot, shown, fmuStates>>

NextDerive == DeriveNext

SpecDerive == InitDerive /\ [][NextDerive]_vars

----------------------------------------------------------------------------
(* Properties of the run controller *)

\* the step just taken was a call of simu() / of par()
SimuStep == lastOp' = "simu"
ParStep  == lastOp' = "par"
\* the call of that step asked for a continuation / for a fresh run
ContStep  == SimuStep /\ call'.mode \in ContModes
FreshStep == SimuStep /\ call'.mode \in InitModes
\* the registry holds none of the missing-value sentinels
NoneMissing == MissingKeys(parDict) = {}
\* every value of the registry d is a number or NaN, so that parCheck can be evaluated
Numeric(d) == \A k \in DOMAIN d : d[k].tag \in {"num", "nan"}
\* the lines of the last call that name a violated requirement
Reported == {m.key : m \in {x \in printed : x.msg = "violated"}}
\* the backend path of a mnemonic, and the initial-value path of the state bioreactor.V
PathOf(k)  == ParLocation(variant)[k]
StateV     == StateList[3]

\* C1: in every variant, simu(mode='cont') before any run has completed prints the
\* ordering error, raises nothing, makes no backend call and leaves the session
\* Unstarted: no captured state and no clock.
C1_ContBeforeAnyRun ==
  [][(ContStep /\ ~everCompleted /\ NoneMissing)
       => /\ Msg("ordering", <<>>) \in printed'
          /\ raised' = "none"
          /\ backendOps' = {}
          /\ stateDict' = stateDict
          /\ "prevFinalTime" \notin defined'
          /\ ~everCompleted']_vars

\* C2: a continuation that follows a completed run and reaches the backend starts it,
\* for every state, with the value that run captured at the state's initial-value
\* path, whatever the registry declares for that path; the start-value set has one
\* value for each path of the registry and of the states.
C2_ContinuationInjectsCaptured ==
  [][(ContStep /\ prevCompleted /\ "simulate" \in backendOps')
       => /\ \A k \in States : /\ k \in DOMAIN stateDictInitial(variant)
                               /\ start_values'[stateDictInitial(variant)[k]] = snapshot[k]
          /\ DOMAIN start_values' = {PathOf(k) : k \in DOMAIN parDict}
                                      \cup Range(stateDictInitial(variant))]_vars

\* a continuation has started the backend with the captured volume although the
\* operator had set another initial volume after the previous run
C2_Witness ==
  /\ lastOp = "simu" /\ call.mode \in ContModes /\ "simulate" \in backendOps
  /\ parDict[kV(variant)] = Num(-100)
  /\ start_values[PathOf(kV(variant))] = ModelGet(StateV, simReq[1])
  /\ start_values[PathOf(kV(variant))] # parDict[kV(variant)]

\* C3: a fresh run of duration d asks the backend for [0, d]; a continuation of
\* duration d asks for [clock, clock + d], clock being the end time stored by the last
\* completed run; a completed run stores the end of its interval as the clock and, in
\* the scripts with the PyFMI 0.9.7 and FMPy controllers, no other call moves the clock.
C3_RunIntervals ==
  [][SimuStep
       => /\ (FreshStep /\ "simulate" \in backendOps') => simReq' = <<0, call'.d>>
          /\ (ContStep /\ everCompleted /\ "simulate" \in backendOps')
               => simReq' = <<prevFinalTime, prevFinalTime + call'.d>>
          /\ prevCompleted' => prevFinalTime' = simReq'[2]
          /\ (variant # "me" /\ ~prevCompleted') => prevFinalTime' = prevFinalTime]_vars

\* a completed continuation over [1, 2] that follows a run ending at 1
C3_Witness ==
  /\ lastOp = "simu" /\ call.mode \in ContModes /\ call.d = 1
  /\ prevCompleted /\ simReq = <<1, 2>> /\ prevFinalTime = 2

\* C4: in every variant, simu() called in either mode while a registry entry holds
\* NaN, None or '' is aborted with a diagnostic and makes no backend call.
C4_MissingValueAborts ==
  [][(SimuStep /\ ~NoneMissing)
       => /\ backendOps' = {}
          /\ printed' # {}
          /\ raised' = "none"]_vars

\* C5: when the backend raises in the set or simulate step of a run, the call reports
\* it and the captured state, the clock, the start-value set and the Unstarted/Ready
\* state are what they were before the call.
C5_BackendFailureLeavesSession ==
  [][(SimuStep /\ call'.failed \in {"set", "simulate"})
       => /\ printed' # {} \/ raised' # "none"
          /\ stateDict' = stateDict
          /\ prevFinalTime' = prevFinalTime
          /\ start_values' = start_values
          /\ ("prevFinalTime" \in defined') = ("prevFinalTime" \in defined)
          /\ everCompleted' = everCompleted]_vars

\* C6: once a run has completed, whatever its end time, every later simu(mode='cont')
\* is accepted: it reaches the backend's simulate and never prints the ordering error.
C6_ReadyStaysReady ==
  [][(ContStep /\ everCompleted /\ NoneMissing /\ call'.failed # "set")
       => /\ "simulate" \in backendOps'
          /\ Msg("ordering", <<>>) \notin printed']_vars

----------------------------------------------------------------------------
(* Properties of the parameter registry *)

\* C7: in a par() call each known key's value is stored, each unknown key is reported
\* and skipped, the other entries and the key set of the registry are not changed, and
\* the call raises nothing on a registry of numbers.
C7_ParStoresKnownSkipsUnknown ==
  [][ParStep
       => /\ \A k \in DOMAIN kw' :
               IF k \in DOMAIN parDict
               THEN parDict'[k] = kw'[k]
               ELSE Msg("unknown", k) \in printed' /\ k \notin DOMAIN parDict'
          /\ DOMAIN parDict' = DOMAIN parDict
          /\ \A k \in (DOMAIN parDict) \ DOMAIN kw' : parDict'[k] = parDict[k]
          /\ Numeric(parDict') => raised' = "none"]_vars

\* a par() call with a known and an unknown key has returned
C7_Witness ==
  /\ lastOp = "par" /\ raised = "none"
  /\ DOMAIN kw = {kY, kfoo}
  /\ parDict[kY] = kw[kY] /\ kw[kY] = Num(-100)
  /\ kfoo \notin DOMAIN parDict /\ Msg("unknown", kfoo) \in printed

\* C8: after every par() call the requirements reported as violated are exactly the
\* requirements of parCheck that are false on the registry.
C8_ReportedIsExactlyFalse ==
  lastOp = "par" =>
    \A i \in 1..Len(parCheck(variant)) :
       (EvalReq(parCheck(variant)[i], parDict) = "F")
         <=> (ReqText(parCheck(variant)[i]) \in Reported)

\* C9: a par() call whose values break a requirement stores them all the same, the
\* broken requirements being printed on a registry of numbers, and a run that
\* reaches the backend hands it the registry's value of every parameter that is not
\* a state's initial value.
C9_ViolatingValuesAreKept ==
  [][/\ (ParStep /\ ParErrors(variant, parDict') # {})
          => /\ \A k \in (DOMAIN kw') \cap (DOMAIN parDict) : parDict'[k] = kw'[k]
             /\ Numeric(parDict')
                  => \A i \in ParErrors(variant, parDict') :
                        Msg("violated", ReqText(parCheck(variant)[i])) \in printed'
     /\ (SimuStep /\ "simulate" \in backendOps')
          => \A k \in DOMAIN parDict :
                PathOf(k) \notin Range(stateDictInitial(variant))
                  => start_values'[PathOf(k)] = parDict[k]]_vars

\* a run has reached the backend with the negative yield a reported par() call stored
C9_Witness ==
  /\ lastOp = "simu" /\ "simulate" \in backendOps
  /\ parDict[kY] = Num(-100)
  /\ start_values[PathOf(kY)] = Num(-100)
  /\ parCheck(variant) # <<>>

\* C10: whenever a call makes a requirement of parCheck false, that call prints the
\* requirement as violated.
C10_NoSilentViolation ==
  [][\A i \in 1..Len(parCheck(variant)) :
        (EvalReq(parCheck(variant)[i], parDict) # "F" /\ EvalReq(parCheck(variant)[i], parDict') = "F")
          => Msg("violated", ReqText(parCheck(variant)[i])) \in printed']_vars

\* the step just taken was a call of init()
InitStep == lastOp' = "init"

\* C11: init() stores a key of the call exactly when the key contains the marker ('_0',
\* '_start'); every other key of the call is printed as not an initial value and
\* leaves the registry as it was, the call raises nothing, and the keys with the
\* marker are stored whatever else the call holds.
C11_InitStoresMarkedKeys ==
  [][InitStep
       => /\ \A k \in DOMAIN kw' :
               IF Contains(k, Marker(variant))
               THEN k \in DOMAIN parDict' /\ parDict'[k] = kw'[k]
               ELSE /\ Msg("notinitial", k) \in printed'
                    /\ IF k \in DOMAIN parDict THEN parDict'[k] = parDict[k]
                                               ELSE k \notin DOMAIN parDict'
          /\ raised' = "none"]_vars

\* an init() call with the initial volume and the yield: the volume is stored, the
\* yield reported and left alone
C11_Witness ==
  /\ lastOp = "init" /\ raised = "none"
  /\ DOMAIN kw = {kV(variant), kY}
  /\ kw[kV(variant)] = Num(-100) /\ parDict[kV(variant)] = Num(-100)
  /\ kw[kY] = Empty /\ parDict[kY] # Empty
  /\ Msg("notinitial", kY) \in printed

\* C12: init() never grows the key set of the registry: a key of the call that the
\* registry does not declare is reported and not added, marker or not.
C12_InitKeepsKeySet ==
  [][InitStep
       => /\ DOMAIN parDict' = DOMAIN parDict
          /\ \A k \in (DOMAIN kw') \ (DOMAIN parDict) : \E m \in printed' : m.key = k]_vars

\* C13: whenever simu() is called, every key of the registry has a backend path in
\* parLocation, and the call never fails with a missing key.
C13_EveryKeyResolves ==
  [][SimuStep
       => /\ DOMAIN parDict \subseteq DOMAIN ParLocation(variant)
          /\ raised' # "KeyError"]_vars

----------------------------------------------------------------------------
(* Properties of the initial-value path derivation *)

\* the path key ends in a bracketed index of w characters
Bracketed(key, w) ==
  /\ Len(key) >= w + 2
  /\ key[Len(key)] = "]"
  /\ key[Len(key) - w - 1] = "["
  /\ \A i \in (Len(key) - w)..(Len(key) - 1) : key[i] \notin {"[", "]"}
\* the path key ends in the tag 'I.y' or 'D.x'
BlockTagged(key) == Len(key) >= 3 /\ SubSeq(key, Len(key) - 2, Len(key)) \in {s_Iy, s_Dx}
\* the states the loop has passed, and the state it stopped at, if any
Passed    == {fmuStates[i] : i \in 1..pos}
StoppedAt == IF loopOut \in {"toomany", "IndexError"} THEN {fmuStates[pos + 1]} ELSE {}

\* C14: a state path that ends in a bracketed index of 1, 2 or 3 characters gets the
\* path with the marker put immediately before the '[', and the loop does not stop
\* at such a state; no other rule is applied to it.
C14_BracketRule ==
  \A w \in 1..3 :
     /\ \A key \in Passed :
           Bracketed(key, w)
             => /\ key \in DOMAIN derived
                /\ derived[key] = SubSeq(key, 1, Len(key) - w - 2) \o Marker(variant)
                                    \o SubSeq(key, Len(key) - w - 1, Len(key))
     /\ \A key \in StoppedAt : ~Bracketed(key, w)

\* the loop has ended and has given bioreactor.m[123] its path bioreactor.m<marker>[123]
C14_Witness ==
  /\ loopOut = "done"
  /\ \E key \in DOMAIN derived :
        /\ Bracketed(key, 3)
        /\ derived[key] = s_bioreactor \o Dot \o <<"m">> \o Marker(variant)
                            \o <<"[", "1", "2", "3", "]">>

\* C15: a state path without a trailing bracket that ends in 'I.y' or 'D.x' gets the
\* path with that sub-block suffix stripped and the marker appended, as someBlockI.y
\* gives someBlock<marker>.
C15_BlockSuffixStripped ==
  \A key \in Passed :
     (key[Len(key)] # "]" /\ BlockTagged(key))
       => derived[key] = SubSeq(key, 1, Len(key) - 3) \o Marker(variant)

\* C15 as the scripts with the block rule have it (explore.py, fmpy_explore.py): such
\* a path gets the path without its last ten characters, followed by the block's
\* letter 'I' or 'D' and the marker, as PID.limPID.I.y gives PID.I<marker>.
C15_BlockRuleAsCoded ==
  variant # "me" =>
    \A key \in Passed :
       (key[Len(key)] # "]" /\ BlockTagged(key))
         => derived[key] = SubSeq(key, 1, Len(key) - 10) \o <<key[Len(key) - 2]>>
                             \o Marker(variant)

\* the FMPy loop has given PID.limPID.I.y the path PID.I_start
C15_Witness ==
  /\ variant = "fmpy"
  /\ \E key \in DOMAIN derived :
        /\ key = s_PID \o Dot \o s_limPID \o Dot \o s_Iy
        /\ derived[key] = s_PID \o Dot \o <<"I", "_", "s", "t", "a", "r", "t">>

\* C16: a state path that ends neither in ']' nor in 'I.y' or 'D.x' gets the full
\* path with the marker appended and nothing else changed.
C16_PlainAppend ==
  \A key \in Passed :
     (key[Len(key)] # "]" /\ ~BlockTagged(key))
       => /\ key \in DOMAIN derived
          /\ Len(derived[key]) = Len(key) + Len(Marker(variant))
          /\ SubSeq(derived[key], 1, Len(key)) = key
          /\ SubSeq(derived[key], Len(key) + 1, Len(derived[key])) = Marker(variant)

\* the loop has given bioreactor.V the path bioreactor.V<marker>
C16_Witness ==
  /\ loopOut = "done"
  /\ s_bioreactor \o Dot \o <<"V">> \in DOMAIN derived
  /\ derived[s_bioreactor \o Dot \o <<"V">>] = s_bioreactor \o Dot \o <<"V">> \o Marker(variant)

\* C17: when the loop has ended, every state whose path the rules can derive has its
\* initial-value path, wherever it stands in the state list; only a state with an
\* index wider than three characters is left out.
C17_OnlyWideStateDropped ==
  loopOut # "running"
    => \A i \in 1..Len(fmuStates) :
          Derive(variant, fmuStates[i]).kind = "ok" => fmuStates[i] \in DOMAIN derived

\* the path pb is the path pa with the marker of variant va replaced by that of vb
Corresponds(pa, va, pb, vb) ==
  \E i \in 0..(Len(pa) - Len(Marker(va))) :
     /\ SubSeq(pa, i + 1, i + Len(Marker(va))) = Marker(va)
     /\ pb = SubSeq(pa, 1, i) \o Marker(vb) \o SubSeq(pa, i + Len(Marker(va)) + 1, Len(pa))

\* C18: the three variants derive corresponding paths: what this variant's loop has
\* derived for a state is, up to the marker, what each other variant derives for it.
C18_SameDerivationInAllVariants ==
  \A key \in DOMAIN derived : \A v \in Variants :
     /\ Derive(v, key).kind = "ok"
     /\ Corresponds(derived[key], variant, Derive(v, key).path, v)

\* C19: the derivation is injective: two different states never get the same
\* initial-value path.
C19_DerivationInjective ==
  \A a, b \in DOMAIN derived : a # b => derived[a] # derived[b]

----------------------------------------------------------------------------
(* Properties of a fresh run *)

\* C20: a fresh run that reaches the backend's simulate has applied the registry's
\* value of every entry at the entry's path, and a fresh run that completes stores the
\* end time the backend reports as the clock and, for every state of the FMU, the
\* number re-read from the backend at that time.
C20_FreshRunAppliesAndCaptures ==
  [][(FreshStep /\ "simulate" \in backendOps')
       => /\ \A k \in DOMAIN parDict : /\ PathOf(k) \in DOMAIN start_values'
                                       /\ start_values'[PathOf(k)] = parDict[k]
          /\ prevCompleted'
               => /\ "prevFinalTime" \in defined'
                  /\ prevFinalTime' = call'.d
                  /\ DOMAIN stateDict' = States
                  /\ \A k \in States : /\ stateDict'[k].tag = "num"
                                       /\ stateDict'[k] = ModelGet(k, call'.d)]_vars

\* a fresh run of one hour has completed in the FMPy script, whose stateDict held
\* None for every state before
C20_Witness ==
  /\ variant = "fmpy"
  /\ lastOp = "simu" /\ call.mode \in InitModes /\ call.d = 1
  /\ prevCompleted /\ prevFinalTime = 1
  /\ \A k \in States : stateDict[k] = ModelGet(k, 1)
  /\ start_values[PathOf(kY)] = parDict[kY]

----------------------------------------------------------------------------
(* Properties of a continuation run *)

\* C21: a continuation that follows a completed run and reaches the backend's simulate
\* starts it with the registry's current value at the path of every entry whose path
\* is not the initial-value path of a state, and with the captured value of the
\* state, not the registry's, at the path of every other entry.
C21_ContinuationAppliesRegistry ==
  [][(ContStep /\ everCompleted /\ "simulate" \in backendOps')
       => \A k \in DOMAIN parDict :
             /\ PathOf(k) \in DOMAIN start_values'
             /\ IF PathOf(k) \notin Range(stateDictInitial(variant))
                THEN start_values'[PathOf(k)] = parDict[k]
                ELSE \E st \in DOMAIN stateDictInitial(variant) :
                        /\ stateDictInitial(variant)[st] = PathOf(k)
                        /\ start_values'[PathOf(k)] = stateDict[st]]_vars

\* a continuation from clock 1 has started the backend with the yield that par() had
\* stored, and with the captured volume instead of the declared one
C21_Witness ==
  /\ lastOp = "simu" /\ call.mode \in ContModes /\ "simulate" \in backendOps
  /\ simReq = <<1, 2>>
  /\ parDict[kY] = Num(-100) /\ start_values[PathOf(kY)] = Num(-100)
  /\ parDict[kV(variant)] = Num(100) /\ start_values[PathOf(kV(variant))] # Num(100)

----------------------------------------------------------------------------
(* Properties of the display *)

\* the step just taken was a call of disp()
DispStep == lastOp' = "disp"

\* C22: when the most recent simu() call was a completed run, disp() shows for every
\* registered parameter the value the backend was started with in that run: the
\* registry's value of then, not a value par() has stored since.
C22_DispShowsLastRun ==
  [][(DispStep /\ prevCompleted /\ raised' = "none")
       => \A k \in DOMAIN parDict :
             /\ k \in DOMAIN shown'
             /\ PathOf(k) \in DOMAIN start_values
             /\ shown'[k] = start_values[PathOf(k)]]_vars

----------------------------------------------------------------------------
(* Properties of init() called with a dictionary *)

\* C23: init() called with one dictionary stores every entry whose key holds the
\* marker in the registry parDict that simu() reads, as the keyword form does.
C23_InitDictStores ==
  [][(lastOp' = "initdict")
       => \A k \in DOMAIN kw' :
             Contains(k, Marker(variant)) => (k \in DOMAIN parDict' /\ parDict'[k] = kw'[k])]_vars

----------------------------------------------------------------------------
(* Properties of the commit after a run *)

\* C24: when a backend read raises while the final state values are recaptured, the
\* commit stores nothing: the captured state values and the clock are what they were
\* before the call.
C24_CommitAllOrNothing ==
  [][(SimuStep /\ call'.failed = "get")
       => /\ stateDict' = stateDict
          /\ prevFinalTime' = prevFinalTime
          /\ ("prevFinalTime" \in defined') = ("prevFinalTime" \in defined)]_vars

----------------------------------------------------------------------------
(* Properties of a fresh run in a session that has completed runs *)

\* C25: a fresh run of duration d asked for after a run has completed, and reaching the
\* backend, asks it for [0, d] whatever the stored clock, and starts it with the
\* registry's value at the path of every entry and with no captured value; when the
\* run completes the clock is d, not the stored clock plus d.
C25_FreshRunIgnoresSnapshot ==
  [][(FreshStep /\ everCompleted /\ "simulate" \in backendOps')
       => /\ simReq' = <<0, call'.d>>
          /\ DOMAIN start_values' = {PathOf(k) : k \in DOMAIN parDict}
          /\ \A k \in DOMAIN parDict : start_values'[PathOf(k)] = parDict[k]
          /\ prevCompleted' => prevFinalTime' = call'.d]_vars

\* a fresh run of one hour has completed in a session whose clock stood at 2: the
\* clock is 1 and the backend was started with the declared volume
C25_Witness ==
  /\ lastOp = "simu" /\ call.mode \in InitModes /\ call.d = 1 /\ call.clock = 2
  /\ prevCompleted /\ prevFinalTime = 1 /\ simReq = <<0, 1>>
  /\ start_values[PathOf(kV(variant))] = parDict[kV(variant)]

----------------------------------------------------------------------------
(* Properties of the set of tracked states *)

\* C26: no call adds a key to stateDict or removes one: the keys are those the session
\* started with, and a run replaces values only.
C26_StateKeysFixed ==
  [][DOMAIN stateDict' = DOMAIN stateDict]_vars

----------------------------------------------------------------------------
(* Properties of the backend calls of one simu() *)

\* C27: one simu() call asks the backend to simulate at most once: not at all when the
\* missing-value guard aborts the call or a parameter setting raises, and exactly
\* once, without a second attempt, when the simulation itself raises.
C27_SimulateAtMostOnce ==
  [][SimuStep
       => /\ call'.simulates <= 1
          /\ (call'.simulates = 1) <=> ("simulate" \in backendOps')
          /\ (\E m \in printed' : m.msg = "missing") => call'.simulates = 0
          /\ call'.failed = "set" => call'.simulates = 0
          /\ call'.failed = "simulate" => (call'.simulates = 1 /\ raised' = "BackendError")]_vars

\* a continuation in which the simulation raised: the backend was asked once
C27_Witness ==
  /\ lastOp = "simu" /\ call.mode \in ContModes
  /\ call.failed = "simulate" /\ call.simulates = 1 /\ raised = "BackendError"

----------------------------------------------------------------------------
(* Properties of the capture after a simulation *)

\* C28: whenever the backend has completed a simulation inside a simu() call, and no
\* backend read fails, that call stores the final state values and the clock of
\* that simulation, whether or not newplot() was called before and whether or not a
\* diagram command raises.
C28_SimulationIsCaptured ==
  [][(SimuStep /\ "simulate" \in backendOps' /\ call'.failed \notin {"simulate", "get"})
       => /\ prevCompleted'
          /\ "prevFinalTime" \in defined'
          /\ prevFinalTime' = simReq'[2]
          /\ \A k \in States : k \in DOMAIN stateDict' /\ stateDict'[k] = ModelGet(k, simReq'[2])]_vars

----------------------------------------------------------------------------
(* Properties of an aborted call *)

\* C29: a simu() call that the missing-value guard aborts changes nothing of the
\* session: the registry, the captured state values, the clock, the values handed to
\* the backend and the stored simulation duration are what they were before the call.
C29_GuardAbortChangesNothing ==
  [][(SimuStep /\ \E m \in printed' : m.msg = "missing")
       => /\ parDict' = parDict
          /\ stateDict' = stateDict
          /\ prevFinalTime' = prevFinalTime
          /\ defined' = defined
          /\ start_values' = start_values
          /\ simulationTime' = simulationTime]_vars

----------------------------------------------------------------------------
(* Properties of a call with an unknown mode *)

\* C30: in every variant a simu() call whose mode is neither an initial nor a continued
\* spelling, on a registry without missing values, prints the mode error, raises
\* nothing, does not ask the backend to simulate, and leaves the captured state
\* values and the clock as they were.
C30_UnknownModeLeavesSession ==
  [][(SimuStep /\ call'.mode \notin (InitModes \cup ContModes) /\ NoneMissing)
       => /\ Msg("mode", <<>>) \in printed'
          /\ raised' = "none"
          /\ "simulate" \notin backendOps'
          /\ stateDict' = stateDict
          /\ prevFinalTime' = prevFinalTime
          /\ ("prevFinalTime" \in defined') = ("prevFinalTime" \in defined)]_vars

====
